---- MODULE Spec2Model ----
(***************************************************************************)
(* Stock monitor (microjack/stock): the polling loop of src/monitor.py     *)
(* (monitor_stocks, check_stock_alerts, send_notification), the network    *)
(* recovery backoff, and the managers package (src/managers).              *)
(*                                                                         *)
(* Units.  Prices are integers in 1/100 yuan (24.5 is 2450).  Percentages  *)
(* (change_percent and the two price thresholds) are integers in 1/100 of  *)
(* a percent (2.0 is 200), which is what round(x, 2) keeps.  A quote's     *)
(* raw amount is in yuan; Stock.amount and volume_threshold are in units   *)
(* of 10,000 yuan.  Times are seconds since local midnight.                *)
(***************************************************************************)
EXTENDS Integers, Sequences, FiniteSets, TLC

VARIABLES
    pc,            \* monitor_stocks: "loop" (top of while True), "sleep" (in time.sleep), "done"
    now,           \* the wall clock, datetime.now(), in seconds since midnight
    sleep,         \* seconds of the pending time.sleep call (0 when none)
    is_connected,  \* monitor_stocks' local flag
    api_open,      \* the quote client's link: open after connect() returned true, closed by disconnect()
    stocks,        \* code -> Stock object (configuration and mutable state)
    enabled_stocks,\* the (market_code, code) list handed to get_security_quotes
    branch,        \* the branch the last loop iteration took
    calls,         \* the quote-client calls of the last loop iteration, in order
    log,           \* the alert and notification events of the last tick, in order
    delivered,     \* history: code -> time of the last delivered notification (None when none)
    fired,         \* history: code -> target -> TargetReached candidates emitted so far (capped)
    reached,       \* history: code -> target -> some processed tick had price >= target
    assigns,       \* history: code -> [minute, n, resets]: assignments to start_amount in that
                   \* clock minute, and how many of them were minute-start captures
    failed_connects,\* history: failed connects since the last successful one (capped)
    rec,           \* wait_for_network_recovery as a step machine (its locals and trace)
    mgr,           \* the managers package: a State object, and the last call's name and result
    twin,          \* a second run of the evaluator on the same ticks: its Stock object and events
    ret            \* a function called on its own: its name, its arguments and what it returned

vars == << pc, now, sleep, is_connected, api_open, stocks, enabled_stocks, branch, calls,
           log, delivered, fired, reached, assigns, failed_connects, rec, mgr, twin, ret >>

loopVars == << pc, now, sleep, is_connected, api_open, stocks, enabled_stocks, branch, calls,
               log, delivered, fired, reached, assigns, failed_connects >>

(***************************************************************************)
(* Bounds of the model.                                                    *)
(***************************************************************************)
\* The clock is observed at the first NumInstants instants of Clock.
NumInstants == 8
\* A blocking call may overshoot: after sleep(d) the clock is at one of the first
\* 1 + MaxSkip observed instants that are at least d seconds later.
MaxSkip == 1
\* In one tick at most MaxDispatchFailures dispatch attempts fail (the first ones).
MaxDispatchFailures == 1
\* The history counters stop counting at MaxCount.
MaxCount == 2
\* The history of failed connects stops counting at MaxFailedConnects.
MaxFailedConnects == 4

(***************************************************************************)
(* Configuration: CONFIG of src/monitor.py.                                *)
(***************************************************************************)
notification_cooldown == 60
max_retries == 3
check_interval == 1
\* The literals of monitor_stocks and wait_for_network_recovery.
non_trading_sleep == 60
connect_retry_sleep == 5
recovery_base_delay == 5
recovery_max_retries == 5

\* None (last_notification_time) and the initial last_minute.
None == -1
NoMinute == -1

\* "HH:MM" as its four digits; the colon is the same in every string compared.
HHMM(h, m) == << h \div 10, h % 10, m \div 10, m % 10 >>

trading_ranges == << << HHMM(9, 30), HHMM(11, 30) >>, << HHMM(13, 0), HHMM(15, 0) >> >>

(***************************************************************************)
(* The clock.                                                              *)
(***************************************************************************)
At(h, m, s) == h * 3600 + m * 60 + s

Clock == << At(11, 29, 0), At(11, 29, 10), At(11, 29, 58), At(11, 29, 59),
            At(11, 30, 0), At(11, 31, 0), At(13, 0, 0), At(13, 0, 59), At(13, 1, 0) >>

Instants == { Clock[i] : i \in 1..NumInstants }

Hour(t) == (t \div 3600) % 24
Minute(t) == (t \div 60) % 60
Second(t) == t % 60
\* The clock minute an instant lies in (not wrapped at the hour).
AbsMinute(t) == t \div 60

\* datetime.now().strftime("%H:%M")
strftime(t) == HHMM(Hour(t), Minute(t))

\* Python's str <= str on two strings of the same length: lexicographic.
RECURSIVE StrLeq(_, _)
StrLeq(a, b) ==
    IF a = << >> THEN TRUE
    ELSE IF Head(a) # Head(b) THEN Head(a) < Head(b)
    ELSE StrLeq(Tail(a), Tail(b))

\* The instants the clock may show after a blocking call of at least d seconds.
After(d) ==
    LET later == { t \in Instants : t >= now + d }
    IN  { t \in later : Cardinality({ u \in later : u < t }) <= MaxSkip }

(***************************************************************************)
(* Stock: configuration and state of one symbol (class Stock).             *)
(***************************************************************************)
\* STOCKS_CONFIG entries: the entry of src/monitor.py for 920579.
StockConfigA ==
    [ code |-> "920579", enabled |-> TRUE, volume_threshold |-> 50,
      price_alert_threshold |-> 200, price_change_threshold |-> 300,
      target_prices |-> << 2400, 2450, 2500 >> ]

\* The entry of src/monitor.py for 002747.
StockConfigB ==
    [ code |-> "002747", enabled |-> TRUE, volume_threshold |-> 500,
      price_alert_threshold |-> 200, price_change_threshold |-> 300,
      target_prices |-> << 2400, 2450, 2500 >> ]

Range(seq) == { seq[i] : i \in DOMAIN seq }

\* Stock.__init__
Stock(config) ==
    [ code |-> config.code,
      enabled |-> config.enabled,
      volume_threshold |-> config.volume_threshold,
      price_alert_threshold |-> config.price_alert_threshold,
      price_change_threshold |-> config.price_change_threshold,
      target_prices |-> config.target_prices,
      target_triggered |-> [ p \in Range(config.target_prices) |-> FALSE ],
      current_price |-> 0,
      last_close |-> 0,
      amount |-> 0,
      change_percent |-> 0,
      last_notification_time |-> None,
      start_amount |-> 0,
      last_minute |-> NoMinute ]

\* round(num / den, 0) for den > 0: to the nearest integer, a tie to the even one.
Round(num, den) ==
    LET q == num \div den
        r == num % den
    IN  IF 2 * r < den THEN q
        ELSE IF 2 * r > den THEN q + 1
        ELSE IF q % 2 = 0 THEN q ELSE q + 1

Abs(x) == IF x < 0 THEN -x ELSE x

\* round((price - last_close) / last_close * 100, 2), in 1/100 percent.
ChangePercent(price, last_close) == Round((price - last_close) * 10000, last_close)

\* Stock.update: data is a quote record [code, price, last_close, amount].
update(stock, data) ==
    LET s1 == [ stock EXCEPT !.current_price = data.price,
                             !.last_close = data.last_close,
                             !.amount = data.amount \div 10000 ]
    IN  IF s1.last_close > 0
        THEN [ s1 EXCEPT !.change_percent = ChangePercent(s1.current_price, s1.last_close) ]
        ELSE s1

(***************************************************************************)
(* Notifications.  A context ctx carries one tick of one symbol through    *)
(* check_stock_alerts: the Stock object, the events logged so far, the     *)
(* number of dispatch attempts that will still fail, and the history.      *)
(***************************************************************************)
\* Mutant: the comparison of the elapsed time with the cooldown reversed.
can_send_notification_Reversed(stock, t) ==
    IF stock.last_notification_time = None THEN TRUE
    ELSE t - stock.last_notification_time <= notification_cooldown

\* Mutant: a symbol that was never notified about is held back as well.
can_send_notification_NoneBlocks(stock, t) ==
    IF stock.last_notification_time = None THEN FALSE
    ELSE t - stock.last_notification_time >= notification_cooldown

\* can_send_notification(stock), with t the value of datetime.now()
can_send_notification(stock, t) ==
    IF stock.last_notification_time = None THEN TRUE
    ELSE t - stock.last_notification_time >= notification_cooldown

Event(kind, code, value, direction, critical, outcome, gap) ==
    [ kind |-> kind, code |-> code, value |-> value, direction |-> direction,
      critical |-> critical, outcome |-> outcome, gap |-> gap ]

\* Mutant: last_notification_time is stamped before the dispatch, so also when it raises.
send_notification_StampsOnFailure(ctx, kind, value, direction, critical, t) ==
    LET code == ctx.stock.code
        gap == IF ctx.delivered = None THEN None ELSE t - ctx.delivered
    IN  IF ~can_send_notification(ctx.stock, t)
        THEN [ ctx EXCEPT !.log = Append(@, Event(kind, code, value, direction, critical,
                                                  "dropped", gap)) ]
        ELSE IF ctx.fails > 0
        THEN [ ctx EXCEPT !.fails = @ - 1,
                          !.stock.last_notification_time = t,
                          !.log = Append(@, Event(kind, code, value, direction, critical,
                                                  "failed", gap)) ]
        ELSE [ ctx EXCEPT !.stock.last_notification_time = t,
                          !.delivered = t,
                          !.log = Append(@, Event(kind, code, value, direction, critical,
                                                  "sent", gap)) ]

\* send_notification(stock, title, message, critical): kind is the title, value
\* and direction the message.  A dispatch that raises is caught and logged.
send_notification(ctx, kind, value, direction, critical, t) ==
    LET code == ctx.stock.code
        gap == IF ctx.delivered = None THEN None ELSE t - ctx.delivered
    IN  IF ~can_send_notification(ctx.stock, t)
        THEN [ ctx EXCEPT !.log = Append(@, Event(kind, code, value, direction, critical,
                                                  "dropped", gap)) ]
        ELSE IF ctx.fails > 0
        THEN [ ctx EXCEPT !.fails = @ - 1,
                          !.log = Append(@, Event(kind, code, value, direction, critical,
                                                  "failed", gap)) ]
        ELSE [ ctx EXCEPT !.stock.last_notification_time = t,
                          !.delivered = t,
                          !.log = Append(@, Event(kind, code, value, direction, critical,
                                                  "sent", gap)) ]

\* The direction string of the two price messages.
Direction(change_percent) == IF change_percent > 0 THEN "up" ELSE "down"

\* The history of assignments to start_amount: one more in the clock minute of t
\* (capture: it is the minute-start capture of lines 206-208).
Assigned(a, t, capture) ==
    LET b == IF a.minute = AbsMinute(t) THEN a
             ELSE [ minute |-> AbsMinute(t), n |-> 0, resets |-> 0 ]
    IN  [ b EXCEPT !.n = IF @ < MaxCount THEN @ + 1 ELSE @,
                   !.resets = IF ~capture THEN @ ELSE IF @ < MaxCount THEN @ + 1 ELSE @ ]

\* Mutant: the baseline is taken on the first tick of a new minute, whatever its second.
BaselineStep_AnySecond(ctx, current_time) ==
    IF Minute(current_time) # ctx.stock.last_minute
    THEN [ ctx EXCEPT !.stock.start_amount = ctx.stock.amount,
                      !.stock.last_minute = Minute(current_time),
                      !.assigns = Assigned(@, current_time, TRUE),
                      !.log = Append(@, Event("BaselineReset", ctx.stock.code,
                                              ctx.stock.amount, "-", FALSE, "none", None)) ]
    ELSE ctx

\* check_stock_alerts, lines 205-209: the baseline taken at the start of a minute.
BaselineStep(ctx, current_time) ==
    IF Second(current_time) = 0 /\ Minute(current_time) # ctx.stock.last_minute
    THEN [ ctx EXCEPT !.stock.start_amount = ctx.stock.amount,
                      !.stock.last_minute = Minute(current_time),
                      !.assigns = Assigned(@, current_time, TRUE),
                      !.log = Append(@, Event("BaselineReset", ctx.stock.code,
                                              ctx.stock.amount, "-", FALSE, "none", None)) ]
    ELSE ctx

\* Mutant: the baseline is moved to the current amount only when the spike's
\* notification was delivered.
VolumeStep_RebaseOnDelivery(ctx, current_time) ==
    IF 58 <= Second(current_time) /\ Second(current_time) <= 59 /\ ctx.stock.start_amount > 0
    THEN LET volume_change == ctx.stock.amount - ctx.stock.start_amount
         IN  IF volume_change > ctx.stock.volume_threshold
             THEN LET c1 == send_notification(ctx, "VolumeSpike", volume_change, "-",
                                              FALSE, current_time)
                  IN  IF c1.log[Len(c1.log)].outcome = "sent"
                      THEN [ c1 EXCEPT !.stock.start_amount = c1.stock.amount,
                                       !.assigns = Assigned(@, current_time, FALSE) ]
                      ELSE c1
             ELSE ctx
    ELSE ctx

\* Mutant: an increase equal to the threshold is a spike as well.
VolumeStep_Geq(ctx, current_time) ==
    IF 58 <= Second(current_time) /\ Second(current_time) <= 59 /\ ctx.stock.start_amount > 0
    THEN LET volume_change == ctx.stock.amount - ctx.stock.start_amount
         IN  IF volume_change >= ctx.stock.volume_threshold
             THEN LET c1 == send_notification(ctx, "VolumeSpike", volume_change, "-",
                                              FALSE, current_time)
                  IN  [ c1 EXCEPT !.stock.start_amount = c1.stock.amount,
                                  !.assigns = Assigned(@, current_time, FALSE) ]
             ELSE ctx
    ELSE ctx

\* check_stock_alerts, lines 211-221: the volume check at the end of a minute.
VolumeStep(ctx, current_time) ==
    IF 58 <= Second(current_time) /\ Second(current_time) <= 59 /\ ctx.stock.start_amount > 0
    THEN LET volume_change == ctx.stock.amount - ctx.stock.start_amount
         IN  IF volume_change > ctx.stock.volume_threshold
             THEN LET c1 == send_notification(ctx, "VolumeSpike", volume_change, "-",
                                              FALSE, current_time)
                  IN  [ c1 EXCEPT !.stock.start_amount = c1.stock.amount,
                                  !.assigns = Assigned(@, current_time, FALSE) ]
             ELSE ctx
    ELSE ctx

\* Mutant: a change equal to the threshold is alerted as well.
PriceAlertStep_Geq(ctx, current_time) ==
    IF Abs(ctx.stock.change_percent) >= ctx.stock.price_alert_threshold
    THEN send_notification(ctx, "PriceMove", Abs(ctx.stock.change_percent),
                           Direction(ctx.stock.change_percent), FALSE, current_time)
    ELSE ctx

\* check_stock_alerts, lines 223-230: the price alert.
PriceAlertStep(ctx, current_time) ==
    IF Abs(ctx.stock.change_percent) > ctx.stock.price_alert_threshold
    THEN send_notification(ctx, "PriceMove", Abs(ctx.stock.change_percent),
                           Direction(ctx.stock.change_percent), FALSE, current_time)
    ELSE ctx

\* Mutant: the price warning is the elif of the price alert.
PriceWarningStep_Exclusive(ctx, current_time) ==
    IF Abs(ctx.stock.change_percent) > ctx.stock.price_alert_threshold THEN ctx
    ELSE IF Abs(ctx.stock.change_percent) > ctx.stock.price_change_threshold
    THEN send_notification(ctx, "PriceWarning", Abs(ctx.stock.change_percent),
                           Direction(ctx.stock.change_percent), TRUE, current_time)
    ELSE ctx

\* check_stock_alerts, lines 232-241: the price warning.
PriceWarningStep(ctx, current_time) ==
    IF Abs(ctx.stock.change_percent) > ctx.stock.price_change_threshold
    THEN send_notification(ctx, "PriceWarning", Abs(ctx.stock.change_percent),
                           Direction(ctx.stock.change_percent), TRUE, current_time)
    ELSE ctx

\* Mutant: the target is not marked as triggered.
TargetStep_NoMark(ctx, target_price, current_time) ==
    IF ~ctx.stock.target_triggered[target_price] /\ ctx.stock.current_price >= target_price
    THEN send_notification(ctx, "TargetReached", target_price, "-", TRUE, current_time)
    ELSE ctx

\* Mutant: the target is marked as triggered only when its notification was delivered.
TargetStep_MarkOnDelivery(ctx, target_price, current_time) ==
    IF ~ctx.stock.target_triggered[target_price] /\ ctx.stock.current_price >= target_price
    THEN LET c1 == send_notification(ctx, "TargetReached", target_price, "-", TRUE,
                                     current_time)
         IN  IF c1.log[Len(c1.log)].outcome = "sent"
             THEN [ c1 EXCEPT !.stock.target_triggered[target_price] = TRUE ]
             ELSE c1
    ELSE ctx

\* check_stock_alerts, lines 245-253: one target price of the for loop.
TargetStep(ctx, target_price, current_time) ==
    IF ~ctx.stock.target_triggered[target_price] /\ ctx.stock.current_price >= target_price
    THEN send_notification([ ctx EXCEPT !.stock.target_triggered[target_price] = TRUE ],
                           "TargetReached", target_price, "-", TRUE, current_time)
    ELSE ctx

\* check_stock_alerts, lines 244-253: for target_price in stock.target_prices, from index i.
RECURSIVE TargetLoop(_, _, _)
TargetLoop(ctx, i, current_time) ==
    IF i > Len(ctx.stock.target_prices) THEN ctx
    ELSE TargetLoop(TargetStep(ctx, ctx.stock.target_prices[i], current_time), i + 1,
                    current_time)

\* Mutant: the price warning is evaluated before the price alert.
check_stock_alerts_WarningFirst(ctx, current_time) ==
    TargetLoop(PriceAlertStep(PriceWarningStep(VolumeStep(BaselineStep(ctx, current_time),
                                                          current_time),
                                               current_time),
                              current_time),
               1, current_time)

\* check_stock_alerts(stock, current_time)
check_stock_alerts(ctx, current_time) ==
    TargetLoop(PriceWarningStep(PriceAlertStep(VolumeStep(BaselineStep(ctx, current_time),
                                                          current_time),
                                               current_time),
                                current_time),
               1, current_time)

(***************************************************************************)
(* The helpers of the loop.                                                *)
(***************************************************************************)
\* Mutant: the end of a range is not part of it.
is_trading_hours_HalfOpen(t) ==
    \E i \in DOMAIN trading_ranges :
        /\ StrLeq(trading_ranges[i][1], strftime(t))
        /\ StrLeq(strftime(t), trading_ranges[i][2])
        /\ strftime(t) # trading_ranges[i][2]

\* is_trading_hours(), with t the value of datetime.now()
is_trading_hours(t) ==
    \E i \in DOMAIN trading_ranges :
        /\ StrLeq(trading_ranges[i][1], strftime(t))
        /\ StrLeq(strftime(t), trading_ranges[i][2])

RECURSIVE Pow2(_)
Pow2(n) == IF n = 0 THEN 1 ELSE 2 * Pow2(n - 1)

\* Mutant: the exponent is retry_count, not retry_count - 1.
wait_time_NoOffset(base_delay, retry_count) == base_delay * Pow2(retry_count)

\* wait_time of wait_for_network_recovery after the retry_count-th failed probe.
wait_time(base_delay, retry_count) == base_delay * Pow2(retry_count - 1)

\* Mutant: the loop runs once more.
RecoveryCondition_Leq(retry_count, retry_limit) == retry_count <= retry_limit

\* The while condition of wait_for_network_recovery.
RecoveryCondition(retry_count, retry_limit) == retry_count < retry_limit

\* The while loop of wait_for_network_recovery from retry_count on; probe is the
\* sequence of results check_network_connection() returns, in order.
RECURSIVE RecoveryLoop(_, _, _, _, _)
RecoveryLoop(retry_count, retry_limit, base_delay, probe, r) ==
    IF RecoveryCondition(retry_count, retry_limit)
    THEN IF probe[retry_count + 1]
         THEN [ r EXCEPT !.result = TRUE, !.probes = @ + 1 ]
         ELSE RecoveryLoop(retry_count + 1, retry_limit, base_delay, probe,
                           [ r EXCEPT !.probes = @ + 1,
                                      !.sleeps = Append(@, wait_time(base_delay,
                                                                    retry_count + 1)),
                                      !.slept = @ + wait_time(base_delay, retry_count + 1) ])
    ELSE [ r EXCEPT !.result = FALSE ]

\* wait_for_network_recovery(max_retries = 5)
wait_for_network_recovery(probe) ==
    RecoveryLoop(0, recovery_max_retries, recovery_base_delay, probe,
                 [ result |-> FALSE, probes |-> 0, sleeps |-> << >>, slept |-> 0 ])

\* The probe results in which the first k probes fail and the later ones succeed.
FailFirst(k) == [ i \in 1..(recovery_max_retries + 1) |-> i > k ]

Call(op) == [ op |-> op, connected |-> is_connected ]

Min(a, b) == IF a < b THEN a ELSE b

(***************************************************************************)
(* One quote record of a response.                                         *)
(***************************************************************************)
\* The TargetReached events among events for target price p of symbol code.
TargetEvents(events, code, p) ==
    { i \in DOMAIN events : /\ events[i].kind = "TargetReached"
                            /\ events[i].code = code
                            /\ events[i].value = p }

\* Mutant: one cooldown for all symbols; a delivery stamps every Stock object.
ProcessItem_SharedCooldown(st, item, current_time) ==
    IF item.has_code /\ item.code \in DOMAIN st.stocks
    THEN LET code == item.code
             ctx == check_stock_alerts(
                        [ stock |-> update(st.stocks[code], item), log |-> << >>,
                          fails |-> st.fails, delivered |-> st.delivered[code],
                          assigns |-> st.assigns[code] ],
                        current_time)
         IN  [ stocks |-> [ c \in DOMAIN st.stocks |->
                              IF c = code THEN ctx.stock
                              ELSE [ st.stocks[c] EXCEPT !.last_notification_time =
                                         ctx.stock.last_notification_time ] ],
               log |-> st.log \o ctx.log,
               fails |-> ctx.fails,
               delivered |-> [ st.delivered EXCEPT ![code] = ctx.delivered ],
               assigns |-> [ st.assigns EXCEPT ![code] = ctx.assigns ],
               fired |-> [ st.fired EXCEPT ![code] =
                             [ p \in DOMAIN @ |->
                                 Min(MaxCount,
                                     @[p] + Cardinality(TargetEvents(ctx.log, code, p))) ] ],
               reached |-> [ st.reached EXCEPT ![code] =
                               [ p \in DOMAIN @ |-> @[p] \/ ctx.stock.current_price >= p ] ] ]
    ELSE st

\* Lines 323-330 of monitor_stocks for one item: st carries the Stock objects, the
\* events of the tick, the dispatch failures still to come, and the history.
ProcessItem(st, item, current_time) ==
    IF item.has_code /\ item.code \in DOMAIN st.stocks
    THEN LET code == item.code
             ctx == check_stock_alerts(
                        [ stock |-> update(st.stocks[code], item), log |-> << >>,
                          fails |-> st.fails, delivered |-> st.delivered[code],
                          assigns |-> st.assigns[code] ],
                        current_time)
         IN  [ stocks |-> [ st.stocks EXCEPT ![code] = ctx.stock ],
               log |-> st.log \o ctx.log,
               fails |-> ctx.fails,
               delivered |-> [ st.delivered EXCEPT ![code] = ctx.delivered ],
               assigns |-> [ st.assigns EXCEPT ![code] = ctx.assigns ],
               fired |-> [ st.fired EXCEPT ![code] =
                             [ p \in DOMAIN @ |->
                                 Min(MaxCount,
                                     @[p] + Cardinality(TargetEvents(ctx.log, code, p))) ] ],
               reached |-> [ st.reached EXCEPT ![code] =
                               [ p \in DOMAIN @ |-> @[p] \/ ctx.stock.current_price >= p ] ] ]
    ELSE st

RECURSIVE ProcessResponse(_, _, _, _)

\* Mutant: a dispatch that raised ends the for loop over the response.
ProcessResponse_StopsAtFailure(st, response, i, current_time) ==
    IF i > Len(response) THEN st
    ELSE IF \E j \in DOMAIN st.log : st.log[j].outcome = "failed" THEN st
    ELSE ProcessResponse(ProcessItem(st, response[i], current_time), response, i + 1,
                         current_time)

\* for item in response, from index i.
ProcessResponse(st, response, i, current_time) ==
    IF i > Len(response) THEN st
    ELSE ProcessResponse(ProcessItem(st, response[i], current_time), response, i + 1,
                         current_time)

\* The quote records the feed may return for a symbol.
Quote(code, price, last_close, amount) ==
    [ has_code |-> TRUE, code |-> code, price |-> price, last_close |-> last_close,
      amount |-> amount ]

\* price, last_close, raw amount: a quiet quote, a fall, a rise with a volume
\* spike, a small rise, and a quote without previous close and amount.
QuoteData ==
    { << 2400, 2400, 1000000 >>, << 2300, 2400, 1000000 >>, << 2600, 2400, 1600000 >>,
      << 2450, 2400, 1500000 >>, << 2600, 0, 0 >> }

Quotes(code) == { Quote(code, d[1], d[2], d[3]) : d \in QuoteData }

\* An item that is no dict or has no 'code', and a record of a symbol never configured.
Malformed == [ has_code |-> FALSE, code |-> "", price |-> 0, last_close |-> 0, amount |-> 0 ]
Foreign == Quote("600000", 2600, 2400, 1600000)

\* The non-empty responses of get_security_quotes.
Responses ==
    { << q >> : q \in UNION { Quotes(c) : c \in DOMAIN stocks } \cup { Malformed, Foreign } }

(***************************************************************************)
(* monitor_stocks.  One action is one iteration of while True up to its    *)
(* time.sleep (or its continue or break); Sleep is the pending time.sleep. *)
(* An iteration reads the clock once: time passes in the blocking calls.   *)
(***************************************************************************)
RecIdle ==
    [ pc |-> "idle", retry_limit |-> 0, base_delay |-> 0, retry_count |-> 0,
      probes |-> 0, sleeps |-> << >>, trace |-> << >>, result |-> "none" ]

MgrIdle ==
    [ state |-> [ is_connected |-> FALSE, connection_retries |-> 0, network_retries |-> 0,
                  api_open |-> FALSE ],
      max_retries |-> 0, max_network_retries |-> 0,
      call |-> "idle", result |-> FALSE ]

\* No second run, and no function called on its own.
TwinIdle == [ stock |-> Stock(StockConfigA), log |-> << >>, delivered |-> None ]

RetIdle == [ fn |-> "none", args |-> << >>, result |-> << >> ]

\* The state of monitor_stocks when it enters while True, for a STOCKS_CONFIG.
InitLoop(STOCKS_CONFIG) ==
    LET codes == { STOCKS_CONFIG[i].code : i \in DOMAIN STOCKS_CONFIG }
        conf(c) == CHOOSE cf \in Range(STOCKS_CONFIG) : cf.code = c
    IN  /\ pc = "loop"
        /\ now = Clock[1]
        /\ sleep = 0
        /\ is_connected = FALSE
        /\ api_open = FALSE
        /\ stocks = [ c \in codes |-> Stock(conf(c)) ]
        /\ enabled_stocks = SelectSeq([ i \in DOMAIN STOCKS_CONFIG |-> STOCKS_CONFIG[i].code ],
                                      LAMBDA c : conf(c).enabled)
        /\ branch = "start"
        /\ calls = << >>
        /\ log = << >>
        /\ delivered = [ c \in codes |-> None ]
        /\ fired = [ c \in codes |-> [ p \in Range(conf(c).target_prices) |-> 0 ] ]
        /\ reached = [ c \in codes |-> [ p \in Range(conf(c).target_prices) |-> FALSE ] ]
        /\ assigns = [ c \in codes |-> [ minute |-> NoMinute, n |-> 0, resets |-> 0 ] ]
        /\ failed_connects = 0

Init ==
    /\ InitLoop(<< StockConfigA >>)
    /\ rec = RecIdle
    /\ mgr = MgrIdle
    /\ twin = TwinIdle
    /\ ret = RetIdle

\* Mutant: the function ends without the finally block's disconnect.
Finally_NoDisconnect(name, before) ==
    /\ pc' = "done"
    /\ sleep' = 0
    /\ branch' = name
    /\ calls' = before
    /\ api_open' = api_open
    /\ log' = << >>
    /\ UNCHANGED << is_connected, stocks, enabled_stocks, delivered, fired, reached, assigns,
                    failed_connects >>

\* The finally block (lines 351-354): api.disconnect() when the flag is set.
Finally(name, before) ==
    /\ pc' = "done"
    /\ sleep' = 0
    /\ branch' = name
    /\ calls' = before \o (IF is_connected THEN << Call("disconnect") >> ELSE << >>)
    /\ api_open' = IF is_connected THEN FALSE ELSE api_open
    /\ log' = << >>
    /\ UNCHANGED << is_connected, stocks, enabled_stocks, delivered, fired, reached, assigns,
                    failed_connects >>

\* Mutant: the loop sleeps outside the trading hours without closing the connection.
NonTrading_KeepsConnection ==
    /\ pc = "loop"
    /\ ~is_trading_hours(now)
    /\ calls' = << >>
    /\ branch' = "non_trading"
    /\ pc' = "sleep"
    /\ sleep' = non_trading_sleep
    /\ log' = << >>
    /\ UNCHANGED << now, is_connected, api_open, stocks, enabled_stocks, delivered, fired,
                    reached, assigns, failed_connects, rec, mgr, twin, ret >>

\* Lines 281-289: outside the trading hours.
NonTrading ==
    /\ pc = "loop"
    /\ ~is_trading_hours(now)
    /\ is_connected' = FALSE
    /\ api_open' = IF is_connected THEN FALSE ELSE api_open
    /\ calls' = IF is_connected THEN << Call("disconnect") >> ELSE << >>
    /\ branch' = "non_trading"
    /\ pc' = "sleep"
    /\ sleep' = non_trading_sleep
    /\ log' = << >>
    /\ UNCHANGED << now, stocks, enabled_stocks, delivered, fired, reached, assigns,
                    failed_connects, rec, mgr, twin, ret >>

\* Lines 292-297: the probe fails and wait_for_network_recovery returns True after
\* k failed probes of its own (continue).
NetworkRecovered ==
    /\ pc = "loop"
    /\ is_trading_hours(now)
    /\ \E k \in 0..(recovery_max_retries - 1) :
        LET r == wait_for_network_recovery(FailFirst(k))
        IN  /\ r.result
            /\ now' \in After(r.slept)
    /\ branch' = "network_recovered"
    /\ calls' = << >>
    /\ log' = << >>
    /\ UNCHANGED << pc, sleep, is_connected, api_open, stocks, enabled_stocks, delivered,
                    fired, reached, assigns, failed_connects, rec, mgr, twin, ret >>

\* Mutant: continue instead of break when the recovery gives up.
NetworkExhausted_Continues ==
    /\ pc = "loop"
    /\ is_trading_hours(now)
    /\ LET r == wait_for_network_recovery(FailFirst(recovery_max_retries))
       IN  /\ ~r.result
           /\ now' \in After(r.slept)
    /\ branch' = "network_exhausted"
    /\ calls' = << >>
    /\ log' = << >>
    /\ UNCHANGED << pc, sleep, is_connected, api_open, stocks, enabled_stocks, delivered,
                    fired, reached, assigns, failed_connects, rec, mgr, twin, ret >>

\* Lines 292-296: the probe fails and wait_for_network_recovery returns False (break).
NetworkExhausted ==
    /\ pc = "loop"
    /\ is_trading_hours(now)
    /\ LET r == wait_for_network_recovery(FailFirst(recovery_max_retries))
       IN  /\ ~r.result
           /\ now' \in After(r.slept)
    /\ Finally("network_exhausted", << >>)
    /\ UNCHANGED << rec, mgr, twin, ret >>

\* Lines 300-304: api.connect returns False.
ConnectFailed ==
    /\ pc = "loop"
    /\ is_trading_hours(now)
    /\ ~is_connected
    /\ calls' = << Call("connect") >>
    /\ branch' = "connect_failed"
    /\ pc' = "sleep"
    /\ sleep' = connect_retry_sleep
    /\ failed_connects' = Min(MaxFailedConnects, failed_connects + 1)
    /\ log' = << >>
    /\ UNCHANGED << now, is_connected, api_open, stocks, enabled_stocks, delivered, fired,
                    reached, assigns, rec, mgr, twin, ret >>

\* Line 301: api.connect raises; the outer except logs it and the function ends.
ConnectRaised ==
    /\ pc = "loop"
    /\ is_trading_hours(now)
    /\ ~is_connected
    /\ Finally("error_exit", << Call("connect") >>)
    /\ UNCHANGED << now, rec, mgr, twin, ret >>

\* Lines 300-307 when api.connect (if it is called) returns True: the flag, the
\* client's link and the calls made.
ConnectBlock ==
    [ flag |-> TRUE, open |-> TRUE,
      calls |-> IF is_connected THEN << >> ELSE << Call("connect") >>,
      failed |-> IF is_connected THEN failed_connects ELSE 0 ]

\* A client call made after the connect block cb.
CallAfter(cb, op) == [ op |-> op, connected |-> cb.flag ]

\* Mutant: an empty response is only logged, the connection is kept.
FetchEmpty_StaysConnected ==
    /\ pc = "loop"
    /\ is_trading_hours(now)
    /\ LET cb == ConnectBlock
       IN  /\ calls' = cb.calls \o << CallAfter(cb, "get_security_quotes") >>
           /\ failed_connects' = cb.failed
           /\ is_connected' = cb.flag
           /\ api_open' = cb.open
    /\ branch' = "fetch_empty"
    /\ log' = << >>
    /\ UNCHANGED << pc, now, sleep, stocks, enabled_stocks, delivered, fired, reached,
                    assigns, rec, mgr, twin, ret >>

\* Lines 313-317: the response is empty; disconnect and continue.
FetchEmpty ==
    /\ pc = "loop"
    /\ is_trading_hours(now)
    /\ LET cb == ConnectBlock
       IN  /\ calls' = cb.calls \o << CallAfter(cb, "get_security_quotes"),
                                      CallAfter(cb, "disconnect") >>
           /\ failed_connects' = cb.failed
    /\ is_connected' = FALSE
    /\ api_open' = FALSE
    /\ branch' = "fetch_empty"
    /\ log' = << >>
    /\ UNCHANGED << pc, now, sleep, stocks, enabled_stocks, delivered, fired, reached,
                    assigns, rec, mgr, twin, ret >>

\* Mutant: the except branch disconnects but leaves the flag set.
FetchRaised_KeepsFlag ==
    /\ pc = "loop"
    /\ is_trading_hours(now)
    /\ LET cb == ConnectBlock
       IN  /\ calls' = cb.calls \o << CallAfter(cb, "get_security_quotes"),
                                      CallAfter(cb, "disconnect") >>
           /\ failed_connects' = cb.failed
           /\ is_connected' = cb.flag
    /\ api_open' = FALSE
    /\ branch' = "fetch_error"
    /\ pc' = "sleep"
    /\ sleep' = check_interval
    /\ log' = << >>
    /\ UNCHANGED << now, stocks, enabled_stocks, delivered, fired, reached, assigns, rec, mgr, twin, ret >>

\* Lines 340-345: get_security_quotes raises; disconnect, then the poll sleep.
FetchRaised ==
    /\ pc = "loop"
    /\ is_trading_hours(now)
    /\ LET cb == ConnectBlock
       IN  /\ calls' = cb.calls \o << CallAfter(cb, "get_security_quotes"),
                                      CallAfter(cb, "disconnect") >>
           /\ failed_connects' = cb.failed
    /\ is_connected' = FALSE
    /\ api_open' = FALSE
    /\ branch' = "fetch_error"
    /\ pc' = "sleep"
    /\ sleep' = check_interval
    /\ log' = << >>
    /\ UNCHANGED << now, stocks, enabled_stocks, delivered, fired, reached, assigns, rec, mgr, twin, ret >>

\* Lines 311-345: a tick.  The response is processed item by item at current_time;
\* the first k dispatch attempts of the tick raise.
Tick ==
    /\ pc = "loop"
    /\ is_trading_hours(now)
    /\ \E response \in Responses, k \in 0..MaxDispatchFailures :
        LET st == ProcessResponse(
                      [ stocks |-> stocks, log |-> << >>, fails |-> k,
                        delivered |-> delivered, assigns |-> assigns, fired |-> fired,
                        reached |-> reached ],
                      response, 1, now)
        IN  /\ stocks' = st.stocks
            /\ log' = st.log
            /\ delivered' = st.delivered
            /\ assigns' = st.assigns
            /\ fired' = st.fired
            /\ reached' = st.reached
    /\ LET cb == ConnectBlock
       IN  /\ calls' = cb.calls \o << CallAfter(cb, "get_security_quotes") >>
           /\ is_connected' = cb.flag
           /\ api_open' = cb.open
           /\ failed_connects' = cb.failed
    /\ branch' = "tick"
    /\ pc' = "sleep"
    /\ sleep' = check_interval
    /\ UNCHANGED << now, enabled_stocks, rec, mgr, twin, ret >>

\* time.sleep(sleep) returns.
Sleep ==
    /\ pc = "sleep"
    /\ now' \in After(sleep)
    /\ pc' = "loop"
    /\ sleep' = 0
    /\ branch' = "slept"
    /\ calls' = << >>
    /\ log' = << >>
    /\ UNCHANGED << is_connected, api_open, stocks, enabled_stocks, delivered, fired, reached,
                    assigns, failed_connects, rec, mgr, twin, ret >>

\* Lines 347-354: KeyboardInterrupt, between two iterations or during a sleep.
Interrupt ==
    /\ pc \in { "loop", "sleep" }
    /\ Finally("interrupt", << >>)
    /\ UNCHANGED << now, rec, mgr, twin, ret >>

\* Lines 311 and 347-354: KeyboardInterrupt while get_security_quotes is waiting for
\* the feed, after the connect block; except Exception does not catch it.
InterruptInFetch ==
    /\ pc = "loop"
    /\ is_trading_hours(now)
    /\ LET cb == ConnectBlock
       IN  /\ calls' = cb.calls \o << CallAfter(cb, "get_security_quotes"),
                                      CallAfter(cb, "disconnect") >>
           /\ is_connected' = cb.flag
           /\ failed_connects' = cb.failed
    /\ api_open' = FALSE
    /\ pc' = "done"
    /\ sleep' = 0
    /\ branch' = "interrupt"
    /\ log' = << >>
    /\ UNCHANGED << now, stocks, enabled_stocks, delivered, fired, reached, assigns, rec, mgr,
                    twin, ret >>

Next ==
    \/ NonTrading
    \/ NetworkRecovered
    \/ NetworkExhausted
    \/ ConnectFailed
    \/ ConnectRaised
    \/ FetchEmpty
    \/ FetchRaised
    \/ Tick
    \/ Sleep
    \/ Interrupt
    \/ InterruptInFetch

Spec == Init /\ [][Next]_vars

(***************************************************************************)
(* wait_for_network_recovery (src/monitor.py) and                          *)
(* NetworkManager.wait_for_recovery (src/managers/network_manager.py),     *)
(* statement by statement: rec holds retry_count, the probes made, the     *)
(* sleeps slept and the order of both.                                     *)
(***************************************************************************)
\* The largest max_retries the function is called with.
MaxRetryLimit == 5
\* config.network_retry_delay of src/config.py (src/monitor.py has the literal 5).
network_retry_delay == 30

InitRecovery ==
    /\ InitLoop(<< StockConfigA >>)
    /\ mgr = MgrIdle
    /\ twin = TwinIdle
    /\ ret = RetIdle
    /\ \E limit \in 0..MaxRetryLimit, base \in { recovery_base_delay, network_retry_delay } :
        rec = [ RecIdle EXCEPT !.pc = "test", !.retry_limit = limit, !.base_delay = base ]

\* while retry_count < max_retries: check_network_connection() returns True.
RecProbeOk ==
    /\ rec.pc = "test"
    /\ RecoveryCondition(rec.retry_count, rec.retry_limit)
    /\ rec' = [ rec EXCEPT !.probes = @ + 1, !.trace = Append(@, "probe"),
                           !.result = "true", !.pc = "returned" ]
    /\ UNCHANGED loopVars
    /\ UNCHANGED << mgr, twin, ret >>

\* check_network_connection() returns False: retry_count += 1, wait_time computed.
RecProbeFailed ==
    /\ rec.pc = "test"
    /\ RecoveryCondition(rec.retry_count, rec.retry_limit)
    /\ rec' = [ rec EXCEPT !.probes = @ + 1, !.trace = Append(@, "probe"),
                           !.retry_count = @ + 1, !.pc = "sleep" ]
    /\ UNCHANGED loopVars
    /\ UNCHANGED << mgr, twin, ret >>

\* time.sleep(wait_time)
RecSleep ==
    /\ rec.pc = "sleep"
    /\ rec' = [ rec EXCEPT !.sleeps = Append(@, wait_time(rec.base_delay, rec.retry_count)),
                           !.trace = Append(@, "sleep"), !.pc = "test" ]
    /\ UNCHANGED loopVars
    /\ UNCHANGED << mgr, twin, ret >>

\* The while condition is false: return False.
RecGiveUp ==
    /\ rec.pc = "test"
    /\ ~RecoveryCondition(rec.retry_count, rec.retry_limit)
    /\ rec' = [ rec EXCEPT !.result = "false", !.pc = "returned" ]
    /\ UNCHANGED loopVars
    /\ UNCHANGED << mgr, twin, ret >>

NextRecovery ==
    \/ RecProbeOk
    \/ RecProbeFailed
    \/ RecSleep
    \/ RecGiveUp

SpecRecovery == InitRecovery /\ [][NextRecovery]_vars

\* The function runs on: a probe returns within its socket timeout, a sleep ends.
FairRecovery == SpecRecovery /\ WF_vars(NextRecovery)

(***************************************************************************)
(* The managers package: ConnectionManager on a State object.              *)
(***************************************************************************)
\* The largest retry count a State object is given.
MaxRetryCount == 6

\* Mutant: the connection budget is compared with > (as src/920579.py does).
should_reconnect_Strict(config_max_retries, config_max_network_retries, state) ==
    IF state.connection_retries > config_max_retries THEN FALSE
    ELSE IF state.network_retries >= config_max_network_retries THEN FALSE
    ELSE TRUE

\* ConnectionManager.should_reconnect(config, state)
should_reconnect(config_max_retries, config_max_network_retries, state) ==
    IF state.connection_retries >= config_max_retries THEN FALSE
    ELSE IF state.network_retries >= config_max_network_retries THEN FALSE
    ELSE TRUE

\* Mutant: a successful connect sets the flag but keeps the network retry count.
initialize_KeepsCounter(state, connect) ==
    IF connect = "true"
    THEN [ state |-> [ state EXCEPT !.is_connected = TRUE, !.connection_retries = 0,
                                    !.api_open = TRUE ],
           result |-> TRUE ]
    ELSE [ state |-> state, result |-> FALSE ]

\* ConnectionManager.initialize(config, state); connect is what api.connect does.
initialize(state, connect) ==
    IF connect = "true"
    THEN [ state |-> [ state EXCEPT !.is_connected = TRUE, !.connection_retries = 0,
                                    !.network_retries = 0, !.api_open = TRUE ],
           result |-> TRUE ]
    ELSE [ state |-> state, result |-> FALSE ]

\* ConnectionManager.disconnect(state); raised: api.disconnect() raises.
disconnect(state, raised) ==
    IF state.is_connected
    THEN IF raised THEN state
         ELSE [ state EXCEPT !.is_connected = FALSE, !.api_open = FALSE ]
    ELSE state

InitManagers ==
    /\ InitLoop(<< StockConfigA >>)
    /\ rec = RecIdle
    /\ twin = TwinIdle
    /\ ret = RetIdle
    /\ \E c \in 0..MaxRetryCount, n \in 0..MaxRetryCount, up \in BOOLEAN,
          mr \in 1..MaxRetryCount, mn \in 1..MaxRetryCount :
        mgr = [ MgrIdle EXCEPT !.state = [ is_connected |-> up, connection_retries |-> c,
                                           network_retries |-> n, api_open |-> up ],
                               !.max_retries = mr, !.max_network_retries = mn ]

\* A call of initialize; ret keeps what api.connect did.
MgrInitialize ==
    /\ \E connect \in { "true", "false", "raise" } :
        LET r == initialize(mgr.state, connect)
        IN  /\ mgr' = [ mgr EXCEPT !.state = r.state, !.call = "initialize",
                                   !.result = r.result ]
            /\ ret' = [ fn |-> "initialize", args |-> << connect >>, result |-> r.result ]
    /\ UNCHANGED loopVars
    /\ UNCHANGED << rec, twin >>

MgrDisconnect ==
    /\ \E raised \in BOOLEAN :
        mgr' = [ mgr EXCEPT !.state = disconnect(mgr.state, raised), !.call = "disconnect",
                            !.result = FALSE ]
    /\ UNCHANGED loopVars
    /\ UNCHANGED << rec, twin, ret >>

MgrShouldReconnect ==
    /\ mgr' = [ mgr EXCEPT !.call = "should_reconnect",
                           !.result = should_reconnect(mgr.max_retries,
                                                       mgr.max_network_retries, mgr.state) ]
    /\ UNCHANGED loopVars
    /\ UNCHANGED << rec, twin, ret >>

NextManagers ==
    \/ MgrInitialize
    \/ MgrDisconnect
    \/ MgrShouldReconnect

SpecManagers == InitManagers /\ [][NextManagers]_vars

(***************************************************************************)
(* monitor_stocks with both entries of STOCKS_CONFIG: a response carries    *)
(* one record for each of two symbols.  The enabled flag of the second      *)
(* entry is an input of the configuration.                                  *)
(***************************************************************************)
InitBatch ==
    /\ \E enabled \in BOOLEAN :
        InitLoop(<< StockConfigA, [ StockConfigB EXCEPT !.enabled = enabled ] >>)
    /\ rec = RecIdle
    /\ mgr = MgrIdle
    /\ twin = TwinIdle
    /\ ret = RetIdle

\* price, last_close, raw amount of the records of a batch: a fall and a rise with
\* a volume spike for the first symbol, a rise for the second.
BatchDataA == { << 2300, 2400, 1000000 >>, << 2600, 2400, 1600000 >> }
BatchDataB == { << 2600, 2400, 1600000 >> }

\* The responses of get_security_quotes with two items: a record of the first
\* symbol, then a record of the second symbol, a record of a symbol never
\* configured, or an item without a code; and the second symbol's record before
\* the first symbol's rise.
BatchResponses ==
    LET RecordsA == { Quote(StockConfigA.code, a[1], a[2], a[3]) : a \in BatchDataA }
        RecordsB == { Quote(StockConfigB.code, b[1], b[2], b[3]) : b \in BatchDataB }
    IN  { << a, x >> : a \in RecordsA, x \in RecordsB \cup { Malformed, Foreign } }
            \cup { << b, a >> : b \in RecordsB, a \in { r \in RecordsA : r.price > r.last_close } }

\* Lines 311-345: a tick on a response of two items; ret keeps the response.
BatchTick ==
    /\ pc = "loop"
    /\ is_trading_hours(now)
    /\ \E response \in BatchResponses, k \in 0..MaxDispatchFailures :
        LET st == ProcessResponse(
                      [ stocks |-> stocks, log |-> << >>, fails |-> k,
                        delivered |-> delivered, assigns |-> assigns, fired |-> fired,
                        reached |-> reached ],
                      response, 1, now)
        IN  /\ stocks' = st.stocks
            /\ log' = st.log
            /\ delivered' = st.delivered
            /\ assigns' = st.assigns
            /\ fired' = st.fired
            /\ reached' = st.reached
            /\ ret' = [ fn |-> "get_security_quotes", args |-> << enabled_stocks >>,
                        result |-> response ]
    /\ LET cb == ConnectBlock
       IN  /\ calls' = cb.calls \o << CallAfter(cb, "get_security_quotes") >>
           /\ is_connected' = cb.flag
           /\ api_open' = cb.open
           /\ failed_connects' = cb.failed
    /\ branch' = "tick"
    /\ pc' = "sleep"
    /\ sleep' = check_interval
    /\ UNCHANGED << now, enabled_stocks, rec, mgr, twin >>

NextBatch ==
    \/ NonTrading
    \/ BatchTick
    \/ Sleep

SpecBatch == InitBatch /\ [][NextBatch]_vars

(***************************************************************************)
(* Two runs of Stock.update and check_stock_alerts on the same records at   *)
(* the same times: the loop's own symbol, and twin.  The runs differ in     *)
(* which dispatch attempts raise, and so in what the cooldown drops.        *)
(***************************************************************************)
InitPair ==
    /\ InitLoop(<< StockConfigA >>)
    /\ rec = RecIdle
    /\ mgr = MgrIdle
    /\ twin = TwinIdle
    /\ ret = RetIdle

\* price, last_close, raw amount of the records both runs are given: a quiet
\* quote, a fall, and a rise with a volume spike.
PairData == { << 2400, 2400, 1000000 >>, << 2300, 2400, 1000000 >>, << 2600, 2400, 1600000 >> }

\* Lines 323-330 for one record, in both runs; k dispatch attempts raise in the
\* first run and j in the second.
PairTick ==
    /\ pc = "loop"
    /\ is_trading_hours(now)
    /\ \E item \in { Quote(StockConfigA.code, d[1], d[2], d[3]) : d \in PairData }, k \in 0..MaxDispatchFailures,
          j \in 0..MaxDispatchFailures :
        LET st == ProcessItem(
                      [ stocks |-> stocks, log |-> << >>, fails |-> k,
                        delivered |-> delivered, assigns |-> assigns, fired |-> fired,
                        reached |-> reached ],
                      item, now)
            other == check_stock_alerts(
                         [ stock |-> update(twin.stock, item), log |-> << >>, fails |-> j,
                           delivered |-> twin.delivered,
                           assigns |-> assigns[StockConfigA.code] ],
                         now)
        IN  /\ stocks' = st.stocks
            /\ log' = st.log
            /\ delivered' = st.delivered
            /\ assigns' = st.assigns
            /\ fired' = st.fired
            /\ reached' = st.reached
            /\ twin' = [ stock |-> other.stock, log |-> other.log,
                         delivered |-> other.delivered ]
    /\ LET cb == ConnectBlock
       IN  /\ calls' = cb.calls \o << CallAfter(cb, "get_security_quotes") >>
           /\ is_connected' = cb.flag
           /\ api_open' = cb.open
           /\ failed_connects' = cb.failed
    /\ branch' = "tick"
    /\ pc' = "sleep"
    /\ sleep' = check_interval
    /\ UNCHANGED << now, enabled_stocks, rec, mgr, ret >>

NextPair ==
    \/ NonTrading
    \/ PairTick
    \/ Sleep

SpecPair == InitPair /\ [][NextPair]_vars

(***************************************************************************)
(* Functions called on their own: is_trading_hours at a given time,         *)
(* Stock.update on a Stock object and a record, the evaluator               *)
(* check_stock_alerts of src/monitor.py and of src/stock_monitor.py on one  *)
(* record, and DataProcessor's parse_data, check_price_change and            *)
(* check_volume_change of src/managers/data_processor.py.                   *)
(***************************************************************************)
\* DataProcessor.parse_data(data): the tuple it returns, or the exception of the
\* division by basic_price.
parse_data(data) ==
    LET current_price == data.price
        basic_price == data.last_close
    IN  IF basic_price = 0 THEN "ZeroDivisionError"
        ELSE << current_price, basic_price,
                IF basic_price > 0
                THEN Round((current_price - basic_price) * 10000, basic_price)
                ELSE Round((basic_price - current_price) * 10000, -basic_price),
                data.amount \div 10000 >>

\* The times is_trading_hours is called at: around the ends of both ranges, and
\* far from them.
GateInstants ==
    { At(h, m, sec) : h \in { 0, 9, 11, 12, 13, 15, 23 }, m \in { 0, 29, 30, 31, 59 },
                      sec \in { 0, 59 } }

\* The records update and parse_data are called with.
CallQuotes ==
    { Quote(StockConfigA.code, price, last_close, amount) :
        price \in { 2300, 2400, 2600 }, last_close \in { -2400, 0, 2400 },
        amount \in { 0, 1000000, 1600000 } }

\* The Stock objects update is called on: after no tick, a fall and a rise.
PriorStocks ==
    { [ Stock(StockConfigA) EXCEPT !.change_percent = cp ] : cp \in { 0, -417, 833 } }

InitCalls ==
    /\ InitLoop(<< StockConfigA >>)
    /\ rec = RecIdle
    /\ mgr = MgrIdle
    /\ twin = TwinIdle
    /\ ret = RetIdle

CallIsTradingHours ==
    /\ ret.fn = "none"
    /\ \E t \in GateInstants :
        ret' = [ fn |-> "is_trading_hours", args |-> << t >>, result |-> is_trading_hours(t) ]
    /\ UNCHANGED loopVars
    /\ UNCHANGED << rec, mgr, twin >>

CallUpdate ==
    /\ ret.fn = "none"
    /\ \E stock \in PriorStocks, data \in CallQuotes :
        ret' = [ fn |-> "update", args |-> << stock, data >>, result |-> update(stock, data) ]
    /\ UNCHANGED loopVars
    /\ UNCHANGED << rec, mgr, twin >>

CallParseData ==
    /\ ret.fn = "none"
    /\ \E data \in CallQuotes :
        ret' = [ fn |-> "parse_data", args |-> << data >>, result |-> parse_data(data) ]
    /\ UNCHANGED loopVars
    /\ UNCHANGED << rec, mgr, twin >>

\* check_stock_alerts(stock, seconds) of src/stock_monitor.py: the baseline is taken
\* on every tick at second 0, the volume check runs at second 59 only, the price
\* alert is the elif of the volume check's if, the price warning an if of its own.
stock_monitor_check_stock_alerts(ctx, current_time) ==
    LET seconds == Second(current_time)
        c1 == IF seconds = 0
              THEN [ ctx EXCEPT !.stock.start_amount = ctx.stock.amount,
                                !.assigns = Assigned(@, current_time, TRUE),
                                !.log = Append(@, Event("BaselineReset", ctx.stock.code,
                                                        ctx.stock.amount, "-", FALSE, "none",
                                                        None)) ]
              ELSE ctx
        volume_change == c1.stock.amount - c1.stock.start_amount
        c2 == IF seconds = 59 /\ c1.stock.start_amount > 0
              THEN IF volume_change > c1.stock.volume_threshold
                   THEN send_notification(c1, "VolumeSpike", volume_change, "-", FALSE,
                                          current_time)
                   ELSE c1
              ELSE IF Abs(c1.stock.change_percent) > c1.stock.price_alert_threshold
              THEN send_notification(c1, "PriceMove", Abs(c1.stock.change_percent),
                                     Direction(c1.stock.change_percent), FALSE, current_time)
              ELSE c1
    IN  IF Abs(c2.stock.change_percent) > c2.stock.price_change_threshold
        THEN send_notification(c2, "PriceWarning", Abs(c2.stock.change_percent),
                               Direction(c2.stock.change_percent), TRUE, current_time)
        ELSE c2

\* DataProcessor.check_price_change(config, difference_ratio)
check_price_change(price_change_threshold, difference_ratio) ==
    IF Abs(difference_ratio) > price_change_threshold
    THEN << TRUE, IF difference_ratio > 0 THEN "up" ELSE "down" >>
    ELSE << FALSE, "" >>

\* DataProcessor.check_volume_change(config, state, amount, seconds): what it
\* returns (None when nothing) and the start_amount it leaves in state.
check_volume_change(volume_threshold, start_amount, amount, seconds) ==
    IF seconds = 0
    THEN [ result |-> None, start_amount |-> amount ]
    ELSE IF seconds = 59 /\ start_amount > 0 /\ amount - start_amount > volume_threshold
    THEN [ result |-> amount - start_amount, start_amount |-> start_amount ]
    ELSE [ result |-> None, start_amount |-> start_amount ]

\* The configurations the evaluator is called with: the entry of STOCKS_CONFIG, and
\* the same entry with a price_change_threshold of 5.0.
EvalConfigs == { [ StockConfigA EXCEPT !.price_change_threshold = w ] : w \in { 300, 500 } }

\* The Stock objects the evaluator is called on: before any baseline, with a
\* baseline of 0 and of 100 taken at 11:29:00, never notified about or notified
\* about at 11:29:00.
EvalStocks ==
    { [ Stock(cfg) EXCEPT !.start_amount = b[1], !.last_minute = b[2],
                          !.last_notification_time = lnt ] :
        cfg \in EvalConfigs, b \in { << 0, NoMinute >>, << 0, 29 >>, << 100, 29 >> },
        lnt \in { None, At(11, 29, 0) } }

\* The records of the evaluator's calls: changes of -6, 0, 2, 3, 5 and 6 percent
\* on a previous close of 100, and amounts of 100, 150 and 160.
EvalQuotes ==
    { Quote(StockConfigA.code, price, 10000, amount) :
        price \in { 9400, 10000, 10200, 10300, 10500, 10600 },
        amount \in { 1000000, 1500000, 1600000 } }

\* The times of the evaluator's calls: seconds 0, 10, 58 and 59 of 11:29.
EvalInstants == { At(11, 29, sec) : sec \in { 0, 10, 58, 59 } }

\* The ratios, amounts and seconds DataProcessor's checks are called with.
EvalRatios == { -600, -500, 0, 200, 499, 500, 501, 600 }
EvalAmounts == { 0, 100, 150, 160 }
EvalSeconds == { 0, 10, 58, 59 }

\* Lines 326-330 for one record: Stock.update, then check_stock_alerts.
CallCheckStockAlerts ==
    /\ ret.fn = "none"
    /\ \E stock \in EvalStocks, data \in EvalQuotes, t \in EvalInstants,
          k \in 0..MaxDispatchFailures :
        LET updated == update(stock, data)
            ctx == check_stock_alerts(
                       [ stock |-> updated, log |-> << >>, fails |-> k,
                         delivered |-> stock.last_notification_time,
                         assigns |-> [ minute |-> NoMinute, n |-> 0, resets |-> 0 ] ],
                       t)
        IN  ret' = [ fn |-> "check_stock_alerts", args |-> << updated, t >>,
                     result |-> [ stock |-> ctx.stock, log |-> ctx.log ] ]
    /\ UNCHANGED loopVars
    /\ UNCHANGED << rec, mgr, twin >>

\* The same for src/stock_monitor.py.
CallStockMonitorCheckStockAlerts ==
    /\ ret.fn = "none"
    /\ \E stock \in EvalStocks, data \in EvalQuotes, t \in EvalInstants,
          k \in 0..MaxDispatchFailures :
        LET updated == update(stock, data)
            ctx == stock_monitor_check_stock_alerts(
                       [ stock |-> updated, log |-> << >>, fails |-> k,
                         delivered |-> stock.last_notification_time,
                         assigns |-> [ minute |-> NoMinute, n |-> 0, resets |-> 0 ] ],
                       t)
        IN  ret' = [ fn |-> "stock_monitor.check_stock_alerts", args |-> << updated, t >>,
                     result |-> [ stock |-> ctx.stock, log |-> ctx.log ] ]
    /\ UNCHANGED loopVars
    /\ UNCHANGED << rec, mgr, twin >>

CallCheckPriceChange ==
    /\ ret.fn = "none"
    /\ \E threshold \in { 500 }, ratio \in EvalRatios :
        ret' = [ fn |-> "check_price_change", args |-> << threshold, ratio >>,
                 result |-> check_price_change(threshold, ratio) ]
    /\ UNCHANGED loopVars
    /\ UNCHANGED << rec, mgr, twin >>

CallCheckVolumeChange ==
    /\ ret.fn = "none"
    /\ \E threshold \in { 50 }, start_amount \in EvalAmounts, amount \in EvalAmounts,
          seconds \in EvalSeconds :
        ret' = [ fn |-> "check_volume_change",
                 args |-> << threshold, start_amount, amount, seconds >>,
                 result |-> check_volume_change(threshold, start_amount, amount, seconds) ]
    /\ UNCHANGED loopVars
    /\ UNCHANGED << rec, mgr, twin >>

\* The caller is done with what the call returned; the next call is independent of it.
CallReturn ==
    /\ ret.fn # "none"
    /\ ret' = RetIdle
    /\ UNCHANGED loopVars
    /\ UNCHANGED << rec, mgr, twin >>

NextCalls ==
    \/ CallIsTradingHours
    \/ CallUpdate
    \/ CallParseData
    \/ CallCheckStockAlerts
    \/ CallStockMonitorCheckStockAlerts
    \/ CallCheckPriceChange
    \/ CallCheckVolumeChange
    \/ CallReturn

SpecCalls == InitCalls /\ [][NextCalls]_vars

(***************************************************************************)
(* Properties.                                                             *)
(***************************************************************************)
Ops(cs) == { cs[i].op : i \in DOMAIN cs }

EventsOf(code, kind) == { i \in DOMAIN log : log[i].code = code /\ log[i].kind = kind }

\* C1: every configured target price of every symbol has its TargetReached
\* candidate emitted exactly once, on the first processed tick whose price is at
\* least the target, and never again, however the price moves afterwards; and
\* target_triggered never goes from true back to false.
C1_TargetOnce ==
    /\ [](\A c \in DOMAIN stocks : \A p \in DOMAIN fired[c] :
            /\ fired[c][p] = (IF reached[c][p] THEN 1 ELSE 0)
            /\ stocks[c].target_triggered[p] = reached[c][p])
    /\ [][\A c \in DOMAIN stocks : \A p \in DOMAIN fired[c] :
            stocks[c].target_triggered[p] => stocks'[c].target_triggered[p]]_vars

\* A tick whose price is at least a target that fired on an earlier tick: no
\* TargetReached candidate for it in this tick.
C1_Witness ==
    \E c \in DOMAIN stocks : \E p \in DOMAIN fired[c] :
        /\ branch = "tick"
        /\ stocks[c].current_price >= p
        /\ fired[c][p] = 1
        /\ \E i \in DOMAIN log : log[i].code = c
        /\ TargetEvents(log, c, p) = { }

\* C2: a notification is delivered for a symbol only when none was delivered for
\* it before or the last one was delivered at least notification_cooldown
\* seconds earlier, however many candidates one tick produces; a candidate that
\* comes sooner is dropped without a dispatch attempt.
C2_CooldownGap ==
    \A i \in DOMAIN log :
        /\ log[i].outcome = "sent" =>
              (log[i].gap = None \/ log[i].gap >= notification_cooldown)
        /\ (log[i].outcome # "none" /\ log[i].gap # None /\ log[i].gap < notification_cooldown)
              => log[i].outcome = "dropped"

\* A candidate 10 seconds after a delivered notification is dropped.
C2_Witness ==
    \E i \in DOMAIN log : log[i].outcome = "dropped" /\ log[i].gap = 10

C4_ConnectionFlag ==
    /\ [](pc # "done" =>
            /\ is_connected => api_open
            /\ branch \in { "connect_failed", "fetch_empty", "fetch_error", "non_trading" }
                  => ~is_connected)
    /\ [](\A i \in DOMAIN calls : calls[i].op = "get_security_quotes" => calls[i].connected)
    /\ [][is_connected' # is_connected =>
            (IF is_connected' THEN "connect" ELSE "disconnect") \in Ops(calls')]_vars

\* A fetch that raised right after a successful connect: connect, fetch and
\* disconnect in one iteration, the flag cleared.
C4_Witness ==
    /\ pc = "sleep"
    /\ branch = "fetch_error"
    /\ Len(calls) = 3
    /\ ~is_connected
    /\ ~api_open

\* C5 as stated: the loop ends once max_retries connects in a row have failed, so
\* it never makes more than max_retries failed connects in a row.
C5_BoundedConnectRetries ==
    failed_connects <= max_retries

\* C6 as stated: should_reconnect is true exactly when connection_retries is
\* below max_retries.
C6_Original ==
    mgr.call = "should_reconnect" =>
        mgr.result = (mgr.state.connection_retries < mgr.max_retries)

\* C6 as amended: should_reconnect is false whenever connection_retries >=
\* max_retries, and true exactly when connection_retries < max_retries and
\* network_retries < max_network_retries; with max_retries = 3 it is false at
\* connection_retries = 3.
C6_ShouldReconnect ==
    mgr.call = "should_reconnect" =>
        /\ mgr.result = (/\ mgr.state.connection_retries < mgr.max_retries
                         /\ mgr.state.network_retries < mgr.max_network_retries)
        /\ (mgr.max_retries = 3 /\ mgr.state.connection_retries = 3) => ~mgr.result

\* should_reconnect is false with connection retries left, the network budget spent.
C6_Witness ==
    /\ mgr.call = "should_reconnect"
    /\ ~mgr.result
    /\ mgr.state.connection_retries < mgr.max_retries
    /\ mgr.state.network_retries >= mgr.max_network_retries

\* C7: when wait_for_network_recovery gives up, the loop ends and the client is
\* not asked to connect or fetch again; when it succeeds, the iteration ends
\* without a client call and the loop is back at its top.
C7_NetworkOutage ==
    /\ [](branch = "network_exhausted" =>
            pc = "done" /\ Ops(calls) \subseteq { "disconnect" })
    /\ [](branch = "network_recovered" => pc = "loop" /\ calls = << >>)
    /\ [][pc = "done" => pc' = "done" /\ calls' = calls]_vars

\* The loop ended by an exhausted recovery while it was connected.
C7_Witness ==
    /\ pc = "done"
    /\ branch = "network_exhausted"
    /\ is_connected

\* C8: wait_for_network_recovery makes at most max_retries probes, returns true
\* at the first probe that succeeds, returns false exactly when max_retries
\* probes have all failed, and always returns.
C8_RecoveryTerminates ==
    /\ [](/\ rec.probes <= rec.retry_limit
          /\ rec.result = "true" =>
                rec.pc = "returned" /\ rec.probes = rec.retry_count + 1
                                    /\ rec.trace[Len(rec.trace)] = "probe"
          /\ rec.result = "false" =>
                rec.pc = "returned" /\ rec.probes = rec.retry_limit
                                    /\ rec.retry_count = rec.retry_limit
          /\ (rec.pc = "returned" /\ rec.probes = rec.retry_count)
                => rec.result = "false")
    /\ <>(rec.pc = "returned")

\* The third probe of a call succeeds after two that failed.
C8_Witness ==
    /\ rec.pc = "returned"
    /\ rec.result = "true"
    /\ rec.probes = 3
    /\ Len(rec.sleeps) = 2

\* C9 as stated: every sleep has a probe before it and a probe after it.
C9_Original ==
    rec.pc = "returned" =>
        \A i \in DOMAIN rec.trace :
            rec.trace[i] = "sleep" =>
                /\ i > 1 /\ rec.trace[i - 1] = "probe"
                /\ i < Len(rec.trace) /\ rec.trace[i + 1] = "probe"

\* C9 as amended: every sleep follows a failed probe and is followed by the next
\* probe, except that the last sleep of a call that gives up is followed by the
\* return of false; the k-th sleep lasts base_delay * 2^(k-1) seconds; with
\* max_retries = 3 and base_delay = 5 a call that gives up sleeps 5, 10, 20.
C9_Backoff ==
    /\ \A i \in DOMAIN rec.trace :
          rec.trace[i] = "sleep" =>
              /\ i > 1 /\ rec.trace[i - 1] = "probe"
              /\ i < Len(rec.trace) => rec.trace[i + 1] = "probe"
              /\ (rec.pc = "returned" /\ i = Len(rec.trace)) => rec.result = "false"
    /\ \A k \in DOMAIN rec.sleeps :
          /\ rec.sleeps[k] = rec.base_delay * (2 ^ (k - 1))
          /\ k > 1 => rec.sleeps[k] = 2 * rec.sleeps[k - 1]
    /\ (rec.result = "false" /\ rec.retry_limit = 3 /\ rec.base_delay = 5)
          => rec.sleeps = << 5, 10, 20 >>

\* A call with max_retries = 3 and base_delay = 5 that gave up.
C9_Witness ==
    /\ rec.pc = "returned"
    /\ rec.result = "false"
    /\ rec.sleeps = << 5, 10, 20 >>
    /\ rec.trace[Len(rec.trace)] = "sleep"

C12_ExitAnnounced ==
    pc = "done" =>
        \E i \in DOMAIN log : log[i].critical /\ log[i].outcome \in { "sent", "failed" }

\* C13: an iteration that finds the clock outside the trading hours leaves the
\* flag cleared and the link closed before its sleep of 60 seconds, and makes no
\* client call but the disconnect of an open connection.
C13_NonTradingDisconnected ==
    /\ [](branch = "non_trading" =>
            /\ ~is_connected
            /\ ~api_open
            /\ pc = "sleep"
            /\ sleep = non_trading_sleep
            /\ Ops(calls) \subseteq { "disconnect" })
    /\ [][(pc = "loop" /\ ~is_trading_hours(now)) =>
            /\ Ops(calls') \cap { "connect", "get_security_quotes" } = { }
            /\ (is_connected => calls' = << [ op |-> "disconnect", connected |-> TRUE ] >>)
            /\ stocks' = stocks]_vars

\* The trading hours ended on an open connection: it was closed before the sleep.
C13_Witness ==
    /\ branch = "non_trading"
    /\ pc = "sleep"
    /\ calls = << [ op |-> "disconnect", connected |-> TRUE ] >>
    /\ ~is_trading_hours(now)

\* The events of symbol code with the given outcome among events.
WithOutcome(events, code, outcome) ==
    { i \in DOMAIN events : events[i].code = code /\ events[i].outcome = outcome }

\* C14: last_notification_time of a symbol changes only in a tick in which a
\* dispatch for it completed, and is then the time of that tick; a tick whose
\* dispatches all raised leaves it as it was; and a dispatch that raised is not
\* attempted again: no candidate appears twice among the events of a tick.
C14_StampAfterDelivery ==
    /\ [][\A c \in DOMAIN stocks :
            IF WithOutcome(log', c, "sent") = { }
            THEN stocks'[c].last_notification_time = stocks[c].last_notification_time
            ELSE stocks'[c].last_notification_time = now']_vars
    /\ [](\A i, j \in DOMAIN log :
            (i # j /\ log[i].outcome = "failed") =>
                << log[i].code, log[i].kind, log[i].value >>
                    # << log[j].code, log[j].kind, log[j].value >>)

\* A dispatch that raised a minute after a delivered notification: the time of
\* the last notification is still that of the delivered one.
C14_Witness ==
    \E i \in DOMAIN log :
        /\ branch = "tick"
        /\ log[i].outcome = "failed"
        /\ log[i].gap # None
        /\ log[i].gap >= notification_cooldown
        /\ stocks[log[i].code].last_notification_time = now - log[i].gap
        /\ WithOutcome(log, log[i].code, "sent") = { }

\* C15: a candidate is dropped exactly when a notification was delivered for its
\* symbol less than notification_cooldown seconds before; a candidate of a symbol
\* without a delivered notification is dispatched; a tick whose candidates were
\* dropped leaves last_notification_time unchanged and ends in the poll sleep.
C15_CooldownDrop ==
    /\ [](\A c \in DOMAIN stocks : stocks[c].last_notification_time = delivered[c])
    /\ [](\A i \in DOMAIN log :
            log[i].outcome # "none" =>
                /\ log[i].outcome = "dropped"
                      <=> (log[i].gap # None /\ log[i].gap < notification_cooldown)
                /\ log[i].gap = None => log[i].outcome \in { "sent", "failed" })
    /\ [][\A c \in DOMAIN stocks :
            (WithOutcome(log', c, "dropped") # { } /\ WithOutcome(log', c, "sent") = { }) =>
                /\ stocks'[c].last_notification_time = stocks[c].last_notification_time
                /\ branch' = "tick"
                /\ pc' = "sleep"]_vars

\* A tick ten seconds after a delivered notification: its candidates are dropped,
\* none is dispatched, and the loop is in its poll sleep.
C15_Witness ==
    \E c \in DOMAIN stocks :
        /\ pc = "sleep"
        /\ WithOutcome(log, c, "dropped") # { }
        /\ WithOutcome(log, c, "sent") = { }
        /\ WithOutcome(log, c, "failed") = { }
        /\ stocks[c].last_notification_time = now - 10

\* C16: a tick in which a dispatch raised ends like any other tick, in the poll
\* sleep with the connection kept; every record of the response with a
\* configured code was processed (its price is the symbol's current price), and
\* every check of every processed symbol was evaluated: a change beyond a price
\* threshold has its candidate and every target at or below the price is marked.
C16_DeliveryErrorContained ==
    branch = "tick" =>
        /\ pc = "sleep"
        /\ is_connected
        /\ \A i \in DOMAIN ret.result :
              (ret.result[i].has_code /\ ret.result[i].code \in DOMAIN stocks) =>
                  LET stock == stocks[ret.result[i].code]
                  IN  /\ stock.current_price = ret.result[i].price
                      /\ \A p \in DOMAIN stock.target_triggered :
                            stock.current_price >= p => stock.target_triggered[p]
                      /\ Abs(stock.change_percent) > stock.price_alert_threshold
                            => EventsOf(stock.code, "PriceMove") # { }
                      /\ Abs(stock.change_percent) > stock.price_change_threshold
                            => EventsOf(stock.code, "PriceWarning") # { }

\* The first dispatch of a tick raised, for the first symbol; a later candidate
\* of the same symbol and a candidate of the second symbol were delivered.
C16_Witness ==
    /\ branch = "tick"
    /\ WithOutcome(log, StockConfigA.code, "sent") # { }
    /\ WithOutcome(log, StockConfigB.code, "sent") # { }
    /\ \E i \in WithOutcome(log, StockConfigA.code, "failed") :
          \A j \in WithOutcome(log, StockConfigA.code, "sent")
                    \cup WithOutcome(log, StockConfigB.code, "sent") : i < j

\* C19 as stated: a symbol that is not enabled is never updated and never has an
\* alert candidate or a notification.
C19_OnlyEnabledProcessed ==
    \A c \in DOMAIN stocks :
        ~stocks[c].enabled =>
            /\ stocks[c].current_price = 0
            /\ stocks[c].last_notification_time = None
            /\ \A i \in DOMAIN log : log[i].code # c

\* The candidates among events, in order, without what became of them.
Candidates(events) ==
    [ i \in DOMAIN events |->
        << events[i].kind, events[i].code, events[i].value, events[i].direction,
           events[i].critical >> ]

\* A Stock object without the time of its last notification.
SymbolState(stock) == [ stock EXCEPT !.last_notification_time = None ]

\* C17: two runs on the same records at the same times that differ only in which
\* notifications were delivered, failed or were dropped have, after every tick,
\* the same candidates in the same order and the same symbol state (baseline,
\* last minute, change_percent, target_triggered and the quote fields).
C17_DeliveryIndependent ==
    /\ branch = "tick" => Candidates(log) = Candidates(twin.log)
    /\ \A c \in DOMAIN stocks : SymbolState(stocks[c]) = SymbolState(twin.stock)

\* A volume spike whose notification was dropped in one run and delivered in the
\* other, the two runs having a different time of the last notification.
C17_Witness ==
    \E i \in DOMAIN log :
        /\ log[i].kind = "VolumeSpike"
        /\ log[i].outcome = "dropped"
        /\ twin.log[i].outcome = "sent"
        /\ \A c \in DOMAIN stocks :
              stocks[c].last_notification_time # twin.stock.last_notification_time

\* The minute of the day of an instant.
MinuteOfDay(t) == Hour(t) * 60 + Minute(t)

\* C18: is_trading_hours is true exactly when the minute of the day lies in
\* 09:30..11:30 or in 13:00..15:00, both ends included; it is true at 09:30 and
\* at 11:30 and false at 11:31.
C18_ClosedRanges ==
    ret.fn = "is_trading_hours" =>
        LET t == ret.args[1]
        IN  /\ ret.result = (\/ 9 * 60 + 30 <= MinuteOfDay(t) /\ MinuteOfDay(t) <= 11 * 60 + 30
                             \/ 13 * 60 <= MinuteOfDay(t) /\ MinuteOfDay(t) <= 15 * 60)
            /\ strftime(t) \in { HHMM(9, 30), HHMM(11, 30) } => ret.result
            /\ strftime(t) = HHMM(11, 31) => ~ret.result

\* The last second of 11:30 is inside the trading hours.
C18_Witness ==
    /\ ret.fn = "is_trading_hours"
    /\ ret.args = << At(11, 30, 59) >>
    /\ ret.result = TRUE

\* C20 as stated: with a previous close of zero or less the computation does not
\* fail; Stock.update leaves change_percent as it was and sets the other fields.
C20_ZeroCloseGuarded ==
    /\ ret.fn = "update" =>
          LET stock == ret.args[1]
              data == ret.args[2]
          IN  data.last_close <= 0 =>
                  /\ ret.result.change_percent = stock.change_percent
                  /\ ret.result.current_price = data.price
                  /\ ret.result.last_close = data.last_close
                  /\ ret.result.amount = data.amount \div 10000
    /\ ret.fn = "parse_data" =>
          (ret.args[1].last_close <= 0 => ret.result # "ZeroDivisionError")

\* The kinds of the events a call of the evaluator logged.
KindsOf(events) == { events[i].kind : i \in DOMAIN events }

\* The events of one kind among events.
OfKind(events, kind) == { i \in DOMAIN events : events[i].kind = kind }

C22_PriceMove ==
    /\ ret.fn = "check_stock_alerts" =>
        LET stock == ret.args[1]
            events == ret.result.log
            moves == OfKind(events, "PriceMove")
        IN  /\ (moves # {}) <=> (Abs(stock.change_percent) > stock.price_alert_threshold)
            /\ Cardinality(moves) <= 1
            /\ \A i \in moves :
                /\ events[i].direction = (IF stock.change_percent > 0 THEN "up" ELSE "down")
                /\ events[i].value = Abs(stock.change_percent)
                /\ ~events[i].critical
            /\ (stock.last_close = 10000 /\ stock.current_price = 10600)
               => /\ stock.change_percent = 600
                  /\ stock.price_alert_threshold = 200
                  /\ \E i \in moves : events[i].direction = "up"
    /\ ret.fn = "check_price_change" =>
        LET threshold == ret.args[1]
            ratio == ret.args[2]
        IN  /\ ret.result[1] <=> (Abs(ratio) > threshold)
            /\ ret.result[2] = (IF ~ret.result[1] THEN ""
                                ELSE IF ratio > 0 THEN "up" ELSE "down")

\* The record 106 on a previous close of 100, evaluated with the threshold 2.0.
C22_Witness ==
    /\ ret.fn = "check_stock_alerts"
    /\ ret.args[1].last_close = 10000
    /\ ret.args[1].current_price = 10600
    /\ ret.args[1].change_percent = 600
    /\ ret.args[1].price_alert_threshold = 200
    /\ \E i \in OfKind(ret.result.log, "PriceMove") :
        ret.result.log[i].direction = "up" /\ ret.result.log[i].value = 600

\* C23: on a tick at second 58 or 59 (second 59 only in DataProcessor) on which
\* the baseline amount is above 0, a VolumeSpike candidate carrying
\* delta = amount - baseline is emitted iff delta is above volume_threshold; on
\* every other tick, and when the baseline is 0, none is emitted.  With a
\* threshold of 50, a baseline of 100 taken at second 0 and an amount of 160 at
\* second 59 of the same minute, VolumeSpike fires with delta 60.
C23_VolumeSpike ==
    /\ ret.fn = "check_stock_alerts" =>
        LET stock == ret.args[1]
            t == ret.args[2]
            events == ret.result.log
            spikes == OfKind(events, "VolumeSpike")
            delta == stock.amount - stock.start_amount
        IN  /\ (spikes # {}) <=> /\ Second(t) \in { 58, 59 }
                                 /\ stock.start_amount > 0
                                 /\ delta > stock.volume_threshold
            /\ Cardinality(spikes) <= 1
            /\ \A i \in spikes : events[i].value = delta
            /\ ( /\ stock.volume_threshold = 50
                 /\ stock.start_amount = 100
                 /\ stock.last_minute = Minute(t)
                 /\ stock.amount = 160
                 /\ Second(t) = 59 )
               => \E i \in spikes : events[i].value = 60
    /\ ret.fn = "check_volume_change" =>
        LET threshold == ret.args[1]
            start_amount == ret.args[2]
            amount == ret.args[3]
            seconds == ret.args[4]
            delta == amount - start_amount
        IN  /\ (ret.result.result # None) <=> /\ seconds = 59
                                             /\ start_amount > 0
                                             /\ delta > threshold
            /\ ret.result.result # None => ret.result.result = delta
            /\ (threshold = 50 /\ start_amount = 100 /\ amount = 160 /\ seconds = 59)
               => ret.result.result = 60

\* The example: the baseline 100 of minute 11:29, the amount 160 at 11:29:59.
C23_Witness ==
    /\ ret.fn = "check_stock_alerts"
    /\ ret.args[2] = At(11, 29, 59)
    /\ ret.args[1].volume_threshold = 50
    /\ ret.args[1].start_amount = 100
    /\ ret.args[1].last_minute = 29
    /\ ret.args[1].amount = 160
    /\ \E i \in OfKind(ret.result.log, "VolumeSpike") : ret.result.log[i].value = 60

\* C24 as stated: whenever the volume check reports a delta for a symbol on a tick
\* in minute m, the baseline it subtracted was assigned within that same clock
\* minute m, so that the delta is an intra-minute amount; also when the tick at
\* second 0 of minute m was not observed.
C24_IntraMinuteDelta ==
    [][branch' = "tick" =>
         \A c \in DOMAIN stocks :
             (\E i \in DOMAIN log' : log'[i].code = c /\ log'[i].kind = "VolumeSpike")
                 => assigns[c].minute = AbsMinute(now')]_vars

\* C25 as stated: when the network probe fails while the loop is connected, the
\* connection is closed before the loop waits for the recovery, so that after the
\* wait (whether the network came back or not) the loop is not connected.
C25_DisconnectedAcrossOutage ==
    branch \in { "network_recovered", "network_exhausted" } => ~is_connected

\* The place of an event in the fixed order of one symbol's tick: the baseline
\* capture, VolumeSpike, PriceMove, PriceWarning, then the TargetReached events in
\* the order of the configured target list.
Rank(e) ==
    CASE e.kind = "BaselineReset" -> 0
      [] e.kind = "VolumeSpike" -> 1
      [] e.kind = "PriceMove" -> 2
      [] e.kind = "PriceWarning" -> 3
      [] e.kind = "TargetReached" ->
            3 + (CHOOSE k \in DOMAIN stocks[e.code].target_prices :
                     stocks[e.code].target_prices[k] = e.value)

\* The place of a symbol's record in the response of the last tick.
PlaceOf(code) ==
    CHOOSE k \in DOMAIN ret.result : ret.result[k].has_code /\ ret.result[k].code = code

\* C26: within one tick of one symbol the candidates are produced, and handed to
\* the notifier, in the order VolumeSpike, PriceMove, PriceWarning, then
\* TargetReached in the order of the configured target list, each at most once;
\* within a batch the symbols are evaluated in the order of their records in the
\* response.
C26_FixedOrder ==
    branch = "tick" =>
        \A i \in DOMAIN log : \A j \in DOMAIN log :
            i < j =>
                IF log[i].code = log[j].code
                THEN Rank(log[i]) < Rank(log[j])
                ELSE PlaceOf(log[i].code) < PlaceOf(log[j].code)

\* A tick on a response that has the second symbol's record first: the second
\* symbol's candidates come first, then the first symbol's VolumeSpike, PriceMove,
\* PriceWarning and its three TargetReached.
C26_Witness ==
    /\ branch = "tick"
    /\ ret.result[1].code = StockConfigB.code
    /\ log # << >>
    /\ log[1].code = StockConfigB.code
    /\ \E i \in DOMAIN log :
        /\ i + 5 \in DOMAIN log
        /\ \A d \in 0..5 : log[i + d].code = StockConfigA.code
        /\ << log[i].kind, log[i + 1].kind, log[i + 2].kind >>
               = << "VolumeSpike", "PriceMove", "PriceWarning" >>
        /\ << log[i + 3].value, log[i + 4].value, log[i + 5].value >>
               = StockConfigA.target_prices

\* C27 as stated: after ConnectionManager.disconnect(state) has returned,
\* state.is_connected is false, also when api.disconnect() raised; and a call on a
\* State that is not connected leaves the State and the client's link as they were.
C27_DisconnectClearsFlag ==
    [][mgr'.call = "disconnect" =>
         /\ ~mgr'.state.is_connected
         /\ ~mgr.state.is_connected => mgr'.state = mgr.state]_vars

\* C28: a target whose TargetReached candidate is emitted while the cooldown of
\* its symbol holds the notification back (also a cooldown started by an earlier
\* candidate delivered in the same tick) is marked as triggered all the same, and
\* no later tick emits a candidate, and so no notification, for it: the one
\* candidate a target ever gets is delivered or not, so over a run the
\* notifications delivered for one target are at most one, and may be none.
C28_DroppedTargetLost ==
    /\ [](\A c \in DOMAIN stocks : \A p \in DOMAIN fired[c] :
            /\ fired[c][p] <= 1
            /\ Cardinality(TargetEvents(log, c, p)) <= fired[c][p]
            /\ TargetEvents(log, c, p) # {} => stocks[c].target_triggered[p])
    /\ [][\A c \in DOMAIN stocks : \A p \in DOMAIN fired[c] :
            stocks[c].target_triggered[p] =>
                /\ stocks'[c].target_triggered[p]
                /\ TargetEvents(log', c, p) = {}
                /\ fired'[c][p] = fired[c][p]]_vars

\* A tick in which a notification of the symbol is delivered first and the only
\* candidate a target ever gets is then held back by the cooldown: the target is
\* marked as triggered without any notification.
C28_Witness ==
    /\ branch = "tick"
    /\ \E c \in DOMAIN stocks : \E p \in DOMAIN fired[c] :
        /\ stocks[c].target_triggered[p]
        /\ fired[c][p] = 1
        /\ \E i \in TargetEvents(log, c, p) :
            /\ log[i].outcome = "dropped"
            /\ \E j \in 1..(i - 1) : log[j].code = c /\ log[j].outcome = "sent"

\* The symbols that have a record in the response of the last tick.
Quoted(response) == { response[k].code : k \in { j \in DOMAIN response : response[j].has_code } }

\* C29: processing the record of one symbol leaves the state of every other
\* symbol as it was (price, change_percent, baseline, last minute,
\* target_triggered, last_notification_time): a tick changes, and logs events
\* for, only the symbols that have a record in the response.  A notification
\* delivered for one symbol does not hold back another symbol's: a candidate is
\* dropped only when the last delivery for its own symbol is less than the
\* cooldown ago.
C29_SymbolsIndependent ==
    /\ [](branch = "tick" =>
            \A i \in DOMAIN log :
                /\ log[i].code \in Quoted(ret.result)
                /\ log[i].outcome = "dropped" =>
                       /\ log[i].gap # None
                       /\ log[i].gap < notification_cooldown
                /\ log[i].gap = None =>
                       \A j \in 1..(i - 1) :
                           log[j].code = log[i].code => log[j].outcome # "sent")
    /\ [][branch' = "tick" =>
            \A c \in DOMAIN stocks \ Quoted(ret'.result) :
                /\ stocks'[c] = stocks[c]
                /\ delivered'[c] = delivered[c]
                /\ fired'[c] = fired[c]]_vars

\* A tick in which a notification is delivered for the first symbol and, at the
\* same instant, the first notification of the second symbol is delivered too.
C29_Witness ==
    /\ branch = "tick"
    /\ \E i \in DOMAIN log : \E j \in DOMAIN log :
        /\ i < j
        /\ log[i].code = StockConfigA.code
        /\ log[i].outcome = "sent"
        /\ log[j].code = StockConfigB.code
        /\ log[j].outcome = "sent"
        /\ log[j].gap = None

\* C30: ConnectionManager.initialize sets is_connected and resets
\* connection_retries and network_retries to 0 exactly when api.connect returns
\* true, and then returns true; when api.connect returns false or raises,
\* initialize returns false and leaves is_connected and both counters as they were.
C30_Initialize ==
    [][mgr'.call = "initialize" /\ ret'.fn = "initialize" =>
         LET connect == ret'.args[1]
         IN  /\ mgr'.result = (connect = "true")
             /\ connect = "true" =>
                    /\ mgr'.state.is_connected
                    /\ mgr'.state.connection_retries = 0
                    /\ mgr'.state.network_retries = 0
             /\ connect # "true" =>
                    /\ mgr'.state.is_connected = mgr.state.is_connected
                    /\ mgr'.state.connection_retries = mgr.state.connection_retries
                    /\ mgr'.state.network_retries = mgr.state.network_retries]_vars

\* A call in which api.connect raised, on a State that is not connected and has
\* used retries of both kinds: false is returned and the State is as before.
C30_Witness ==
    /\ mgr.call = "initialize"
    /\ ret.fn = "initialize"
    /\ ret.args = << "raise" >>
    /\ ~mgr.result
    /\ ~mgr.state.is_connected
    /\ mgr.state.connection_retries > 0
    /\ mgr.state.network_retries > 0

====
